---- MODULE Spec2Model ----
(***************************************************************************)
(* TodoQueue: the SQLite-backed task store (class TodoDatabase) and the    *)
(* handlers of TodoQueueApp that call into it.                             *)
(*                                                                         *)
(* The table todos is a function from the ids of the stored rows to rows;  *)
(* every TodoDatabase method opens a connection, executes its statements   *)
(* and commits.  Spec runs every method as one step.  SpecTxn runs         *)
(* update_todo_order statement by statement inside its transaction, which  *)
(* may be interrupted before conn.commit().  SpecDone runs the methods     *)
(* behind the completed list on one more row and clock reading.  SpecCat   *)
(* adds rows through the add button, which also records new categories.    *)
(* SpecClear runs clear_completed one delete_todo at a time.  SpecStore    *)
(* passes add_todo an empty text.  SpecFile separates every method's       *)
(* connection from the file and lets the process stop and reopen it.       *)
(* SpecPar lets two callers run add_todo at once.  SpecPerm reorders only  *)
(* with lists of all pending ids, and SpecDrop drags rows of a queue of    *)
(* up to MaxRows rows.  The                                                *)
(* guards seq < ... and now' <= ... in the next-state relations bound the  *)
(* number of rows and the clock.                                           *)
(***************************************************************************)
EXTENDS Integers, Sequences, FiniteSets, TLC

\* ------------------------------------------------------------------ bounds
MaxId    == 2   \* rows ever inserted (AUTOINCREMENT keeps counting)
MaxTime  == 1   \* clock readings 0..MaxTime
MaxLen   == 2   \* longest id list handed to update_todo_order
MaxRows  == 3   \* rows ever inserted where the completed list is studied
MaxClock == 2   \* clock readings there: 0..MaxClock

\* ------------------------------------------------------------- input sets
Ids        == 1..MaxId
Times      == 0..MaxClock
Texts      == {"buy milk"}
Categories == {"", "home", "work"}
Tags       == {""}

NULL == -1      \* SQL NULL / Python None in an integer or timestamp column

\* The id lists a caller may hand to update_todo_order, and the row
\* distances a drag may cover.
IdLists == UNION {[1..n -> Ids] : n \in 0..MaxLen}
Moves   == (0 - MaxLen)..MaxLen

VARIABLES
    todos,       \* table todos: id -> row, the committed content of the file
    seq,         \* sqlite_sequence of todos: the largest id ever assigned
    categories,  \* table categories: the set of names
    now,         \* the latest reading of datetime.datetime.now()
    pc,          \* "idle", or the method whose transaction is open
    txn,         \* the open transaction's view of todos (<<>> when idle)
    cur,         \* todo_items of the running update_todo_order
    k,           \* statements of the running loop already executed
    last         \* the call that returned last: the method and its outcome

vars == <<todos, seq, categories, now, pc, txn, cur, k, last>>
conn == <<pc, txn, cur, k>>

\* ------------------------------------------------------------ the schema
\* CREATE TABLE todos: the columns besides the key id.
TodoItem(text, category, tags, created_at, completed_at, status, order_index) ==
    [text |-> text, category |-> category, tags |-> tags,
     created_at |-> created_at, completed_at |-> completed_at,
     status |-> status, order_index |-> order_index]

Pending(db)   == {i \in DOMAIN db : db[i].status = "pending"}
Completed(db) == {i \in DOMAIN db : db[i].status = "completed"}

\* The outcome of a call: no method of TodoDatabase raises on its arguments.
Returned(op) == [op |-> op, err |-> "none"]

\* --------------------------------------------------------------- queries
SetMax(S) == CHOOSE m \in S : \A x \in S : x <= m

\* SELECT MAX(order_index) FROM todos WHERE status = "pending"
max_order(db) ==
    IF Pending(db) = {} THEN NULL
    ELSE SetMax({db[i].order_index : i \in Pending(db)})

\* Python's (max_order or 0): None and 0 are both falsy.
OrZero(x) == IF x = NULL \/ x = 0 THEN 0 ELSE x

\* next_order without the + 1: the largest pending order_index again.
same_order(db) == OrZero(max_order(db))

next_order(db) == OrZero(max_order(db)) + 1

\* The sequences over the ids of S, each once.
Enumerations(S) ==
    {s \in [1..Cardinality(S) -> S] : \A a, b \in 1..Cardinality(S) : a # b => s[a] # s[b]}

\* SELECT ... WHERE status = "pending" ORDER BY order_index ASC: the id
\* sequences the query may return; rows with equal keys come in any order.
get_pending_todos(db) ==
    {s \in Enumerations(Pending(db)) :
        \A a, b \in 1..Len(s) : a < b => db[s[a]].order_index <= db[s[b]].order_index}

\* SELECT ... WHERE status = "completed" ORDER BY completed_at ASC: the
\* oldest completion first.
completed_ascending(db) ==
    {s \in Enumerations(Completed(db)) :
        \A a, b \in 1..Len(s) : a < b => db[s[a]].completed_at <= db[s[b]].completed_at}

\* SELECT ... WHERE status = "completed" ORDER BY completed_at DESC
get_completed_todos(db) ==
    {s \in Enumerations(Completed(db)) :
        \A a, b \in 1..Len(s) : a < b => db[s[a]].completed_at >= db[s[b]].completed_at}

\* SELECT name FROM categories: the names add_category has stored.
category_names(db) == categories

\* SELECT DISTINCT category FROM todos WHERE category != ""
get_categories(db) == {db[i].category : i \in DOMAIN db} \ {""}

\* ------------------------------------------------------------ statements
\* id INTEGER PRIMARY KEY without AUTOINCREMENT: one more than the largest
\* id stored now.
max_rowid(db, sequence) == IF DOMAIN db = {} THEN 1 ELSE SetMax(DOMAIN db) + 1

\* id INTEGER PRIMARY KEY AUTOINCREMENT, read back as cursor.lastrowid: one
\* more than the largest id ever assigned, which sqlite_sequence keeps.
lastrowid(db, sequence) == sequence + 1

\* UPDATE todos SET status = "completed" WHERE id = ?, completed_at left out.
UpdateStatusOnly(db, id, completed_at) ==
    IF id \in DOMAIN db THEN [db EXCEPT ![id].status = "completed"] ELSE db

\* The UPDATE written as a toggle of status.
UpdateToggled(db, id, completed_at) ==
    IF id \in DOMAIN db
    THEN [db EXCEPT ![id].status = IF @ = "pending" THEN "completed" ELSE "pending",
                    ![id].completed_at = completed_at]
    ELSE db

\* The UPDATE also closing the gap the row leaves in the queue.
UpdateAndCompact(db, id, completed_at) ==
    [i \in DOMAIN db |->
        IF i = id
        THEN [db[i] EXCEPT !.status = "completed", !.completed_at = completed_at]
        ELSE IF id \in DOMAIN db /\ db[i].order_index > db[id].order_index
             THEN [db[i] EXCEPT !.order_index = @ - 1]
             ELSE db[i]]

\* INSERT INTO todos (text, category, tags, created_at, order_index)
InsertTodo(db, id, text, category, tags, created_at, order_index) ==
    [i \in DOMAIN db \cup {id} |->
        IF i = id
        THEN TodoItem(text, category, tags, created_at, NULL, "pending", order_index)
        ELSE db[i]]

\* UPDATE todos SET status = "completed", completed_at = ? WHERE id = ?
UpdateCompleted(db, id, completed_at) ==
    IF id \in DOMAIN db
    THEN [db EXCEPT ![id].status = "completed", ![id].completed_at = completed_at]
    ELSE db

\* Delete the row and move the last pending row into its place in the
\* queue.
DeleteAndFill(db, id) ==
    IF id \notin DOMAIN db THEN db
    ELSE LET rest == [i \in DOMAIN db \ {id} |-> db[i]]
         IN  IF Pending(rest) = {} THEN rest
             ELSE LET tail == CHOOSE i \in Pending(rest) :
                                \A j \in Pending(rest) :
                                    rest[j].order_index <= rest[i].order_index
                  IN  [rest EXCEPT ![tail].order_index = db[id].order_index]

\* DELETE FROM todos WHERE id = ?
DeleteRow(db, id) == [i \in DOMAIN db \ {id} |-> db[i]]

\* UPDATE todos SET order_index = ? WHERE id = ?
UpdateOrderIndex(db, order_index, id) ==
    IF id \in DOMAIN db THEN [db EXCEPT ![id].order_index = order_index] ELSE db

\* The same loop numbering from 1, as enumerate(todo_items, 1) would.
RECURSIVE EnumerateFromOne(_, _, _)
EnumerateFromOne(db, todo_items, n) ==
    IF n > Len(todo_items) THEN db
    ELSE EnumerateFromOne(UpdateOrderIndex(db, n, todo_items[n]), todo_items, n + 1)

\* for order_index, todo_id in enumerate(todo_items): the statements from
\* the n-th item on (items are numbered from 1 here, order_index from 0).
RECURSIVE EnumerateUpdates(_, _, _)
EnumerateUpdates(db, todo_items, n) ==
    IF n > Len(todo_items) THEN db
    ELSE EnumerateUpdates(UpdateOrderIndex(db, n - 1, todo_items[n]), todo_items, n + 1)

\* for todo in completed_todos: self.db.delete_todo(todo.id)
RECURSIVE DeleteAll(_, _, _)
DeleteAll(db, completed_todos, n) ==
    IF n > Len(completed_todos) THEN db
    ELSE DeleteAll(DeleteRow(db, completed_todos[n]), completed_todos, n + 1)

\* datetime.datetime.now(): the clock never runs backwards between calls.
Clock(t) == t \in Times /\ now <= t /\ t <= now + 1

\* ------------------------------------------------------------------ Init
Init ==
    /\ todos = <<>>
    /\ seq = 0
    /\ categories = {}
    /\ now = 0
    /\ pc = "idle"
    /\ txn = <<>>
    /\ cur = <<>>
    /\ k = 0
    /\ last = Returned("init_database")

\* --------------------------------------------------------------- methods
add_todo(text, category, tags) ==
    /\ pc = "idle"
    /\ \E t \in Times :
        /\ Clock(t)
        /\ now' = t
        /\ todos' = InsertTodo(todos, lastrowid(todos, seq), text, category, tags, t,
                               next_order(todos))
    /\ seq' = seq + 1
    /\ last' = Returned("add_todo")
    /\ UNCHANGED <<categories, conn>>

complete_todo(todo_id) ==
    /\ pc = "idle"
    /\ \E t \in Times :
        /\ Clock(t)
        /\ now' = t
        /\ todos' = UpdateCompleted(todos, todo_id, t)
    /\ last' = Returned("complete_todo")
    /\ UNCHANGED <<seq, categories, conn>>

delete_todo(todo_id) ==
    /\ pc = "idle"
    /\ todos' = DeleteRow(todos, todo_id)
    /\ last' = Returned("delete_todo")
    /\ UNCHANGED <<seq, categories, now, conn>>

update_todo_order(todo_items) ==
    /\ pc = "idle"
    /\ todos' = EnumerateUpdates(todos, todo_items, 1)
    /\ last' = Returned("update_todo_order")
    /\ UNCHANGED <<seq, categories, now, conn>>

add_category(name) ==
    /\ pc = "idle"
    /\ categories' = categories \cup {name}
    /\ last' = Returned("add_category")
    /\ UNCHANGED <<todos, seq, now, conn>>

\* DELETE FROM todos: every row, whatever its status.
clear_todos ==
    /\ pc = "idle"
    /\ todos' = <<>>
    /\ last' = Returned("clear_completed")
    /\ UNCHANGED <<seq, categories, now, conn>>

\* TodoQueueApp.clear_completed, once the user has confirmed.
clear_completed ==
    /\ pc = "idle"
    /\ \E completed_todos \in get_completed_todos(todos) :
        todos' = DeleteAll(todos, completed_todos, 1)
    /\ last' = Returned("clear_completed")
    /\ UNCHANGED <<seq, categories, now, conn>>

\* The calls that read the clock, within the bounds on rows and clock.
Add == \E text \in Texts : seq < MaxId /\ add_todo(text, "", "") /\ now' <= MaxTime

Complete == \E todo_id \in Ids : complete_todo(todo_id) /\ now' <= MaxTime

Next ==
    \/ Add
    \/ Complete
    \/ \E todo_id \in Ids : delete_todo(todo_id)
    \/ \E todo_items \in IdLists : update_todo_order(todo_items)
    \/ clear_completed

Spec == Init /\ [][Next]_vars

\* ------------------------------------- update_todo_order, step by step
Min2(a, b) == IF a < b THEN a ELSE b
Max2(a, b) == IF a > b THEN a ELSE b

\* list.pop(i) and list.insert(i, x), i counted from 0.
Pop(s, i) == [n \in 1..(Len(s) - 1) |-> IF n <= i THEN s[n] ELSE s[n + 1]]
Insert(s, i, x) ==
    [n \in 1..(Len(s) + 1) |-> IF n <= i THEN s[n] ELSE IF n = i + 1 THEN x ELSE s[n - 1]]

\* target_index = max(0, min(len(todos) - 1, start_index + position_change))
target_index(n, start_index, position_change) ==
    Max2(0, Min2(n - 1, start_index + position_change))

\* The dragged id put back where it was taken from.
DropBack(todo_ids, start_index, target) ==
    Insert(Pop(todo_ids, start_index), start_index, todo_ids[start_index + 1])

\* dragged_id = todo_ids.pop(start_index); todo_ids.insert(target_index, dragged_id)
DropOrder(todo_ids, start_index, target) ==
    Insert(Pop(todo_ids, start_index), target, todo_ids[start_index + 1])

\* A connection opened with isolation_level=None: every statement is
\* committed to the file as it runs.
autocommit(file, view) == view

\* sqlite3.connect(db_path) with the default isolation_level: the first
\* UPDATE opens a transaction, and what the statements write stays in the
\* connection's view; the file keeps its committed content until commit().
isolation_level(file, view) == file

\* TodoQueueApp.on_drop up to the first statement of update_todo_order: a
\* drag that started on row start_index and covered position_change rows.
on_drop(start_index, position_change) ==
    /\ pc = "idle"
    /\ position_change # 0
    /\ \E listed \in get_pending_todos(todos) :
        /\ start_index \in 0..(Len(listed) - 1)
        /\ LET target == target_index(Len(listed), start_index, position_change)
           IN  /\ start_index # target
               /\ cur' = DropOrder(listed, start_index, target)
    /\ pc' = "update_todo_order"
    /\ txn' = todos
    /\ k' = 0
    /\ UNCHANGED <<todos, seq, categories, now, last>>

\* One turn of the loop: cursor.execute(UPDATE ...) for todo_items[k].
execute ==
    /\ pc = "update_todo_order"
    /\ k < Len(cur)
    /\ txn' = UpdateOrderIndex(txn, k, cur[k + 1])
    /\ todos' = isolation_level(todos, txn')
    /\ k' = k + 1
    /\ UNCHANGED <<seq, categories, now, pc, cur, last>>

\* conn.commit(); conn.close()
commit ==
    /\ pc = "update_todo_order"
    /\ k = Len(cur)
    /\ todos' = txn
    /\ pc' = "idle"
    /\ txn' = <<>>
    /\ cur' = <<>>
    /\ k' = 0
    /\ last' = Returned("update_todo_order")
    /\ UNCHANGED <<seq, categories, now>>

\* The call ends before conn.commit(): a statement raises or the process
\* stops; the connection is closed with its transaction open, which rolls
\* the transaction back.
Interrupted(op) == [op |-> op, err |-> "interrupted"]

rollback ==
    /\ pc = "update_todo_order"
    /\ pc' = "idle"
    /\ txn' = <<>>
    /\ cur' = <<>>
    /\ k' = 0
    /\ last' = Interrupted("update_todo_order")
    /\ UNCHANGED <<todos, seq, categories, now>>

NextTxn ==
    \/ Add
    \/ Complete
    \/ \E todo_id \in Ids : delete_todo(todo_id)
    \/ \E start_index \in 0..(MaxId - 1), position_change \in Moves :
        on_drop(start_index, position_change)
    \/ execute
    \/ commit
    \/ rollback

SpecTxn == Init /\ [][NextTxn]_vars

\* ------------------------------------------------- the completed list
DoneIds == 1..MaxRows

AddMore == \E text \in Texts : seq < MaxRows /\ add_todo(text, "", "")

CompleteMore == \E todo_id \in DoneIds : complete_todo(todo_id)

NextDone ==
    \/ AddMore
    \/ CompleteMore
    \/ \E todo_id \in DoneIds : delete_todo(todo_id)
    \/ clear_completed

SpecDone == Init /\ [][NextDone]_vars

\* ------------------------------------------- the add button and categories
\* TodoQueueApp.add_todo with the stripped contents of the three entry
\* fields: nothing is stored for an empty text; the row is inserted, and a
\* category the combobox does not offer is stored in the categories table.
\* The combobox offers get_categories() as of the last refresh, which every
\* handler that changes a category in use ends with.
TodoQueueApp_add_todo(text, category, tags) ==
    /\ pc = "idle"
    /\ text # ""
    /\ \E t \in Times :
        /\ Clock(t)
        /\ now' = t
        /\ todos' = InsertTodo(todos, lastrowid(todos, seq), text, category, tags, t,
                               next_order(todos))
    /\ seq' = seq + 1
    /\ categories' = IF category # "" /\ category \notin get_categories(todos)
                     THEN categories \cup {category}
                     ELSE categories
    /\ last' = Returned("add_todo")
    /\ UNCHANGED conn

AddButton ==
    \E text \in Texts, category \in Categories, tags \in Tags :
        seq < MaxId /\ TodoQueueApp_add_todo(text, category, tags) /\ now' <= MaxTime

NextCat ==
    \/ AddButton
    \/ Complete
    \/ \E todo_id \in Ids : delete_todo(todo_id)
    \/ clear_completed

SpecCat == Init /\ [][NextCat]_vars

\* ----------------------------------------- clear_completed, step by step
\* TodoQueueApp.clear_completed up to the loop: the user has confirmed and
\* completed_todos holds what get_completed_todos() returned.
clear_completed_call ==
    /\ pc = "idle"
    /\ \E completed_todos \in get_completed_todos(todos) : cur' = completed_todos
    /\ pc' = "clear_completed"
    /\ k' = 0
    /\ UNCHANGED <<todos, seq, categories, now, txn, last>>

\* One turn of the loop: self.db.delete_todo(todo.id), which opens its own
\* connection, deletes the row and commits before it returns.
clear_completed_delete ==
    /\ pc = "clear_completed"
    /\ k < Len(cur)
    /\ todos' = DeleteRow(todos, cur[k + 1])
    /\ k' = k + 1
    /\ UNCHANGED <<seq, categories, now, pc, txn, cur, last>>

\* The loop is over: refresh_todos() and return.
clear_completed_return ==
    /\ pc = "clear_completed"
    /\ k = Len(cur)
    /\ pc' = "idle"
    /\ cur' = <<>>
    /\ k' = 0
    /\ last' = Returned("clear_completed")
    /\ UNCHANGED <<todos, seq, categories, now, txn>>

\* The handler ends between two turns: a delete_todo raises or the process
\* stops. No transaction is open, so what was deleted stays deleted.
clear_completed_interrupt ==
    /\ pc = "clear_completed"
    /\ pc' = "idle"
    /\ cur' = <<>>
    /\ k' = 0
    /\ last' = Interrupted("clear_completed")
    /\ UNCHANGED <<todos, seq, categories, now, txn>>

NextClear ==
    \/ Add
    \/ Complete
    \/ \E todo_id \in Ids : delete_todo(todo_id)
    \/ clear_completed_call
    \/ clear_completed_delete
    \/ clear_completed_return
    \/ clear_completed_interrupt

SpecClear == Init /\ [][NextClear]_vars

\* ------------------------------------------------ add_todo with any text
\* The texts a caller of TodoDatabase.add_todo may pass, the empty one
\* included: the method itself never looks at its arguments.
AnyText == Texts \cup {""}

AddAny == \E text \in AnyText : seq < MaxId /\ add_todo(text, "", "") /\ now' <= MaxTime

NextStore ==
    \/ AddAny
    \/ Complete
    \/ \E todo_id \in Ids : delete_todo(todo_id)

SpecStore == Init /\ [][NextStore]_vars

\* ------------------------------------- every method, connection and file
\* A connection that is closed without conn.commit(): what its statements
\* wrote is dropped and the file keeps its content.
write_behind(file, view) == file

\* conn.commit(): the file takes the content of the connection's view.
conn_commit(file, view) == view

\* add_todo up to conn.commit(): SELECT MAX, now() and the INSERT, which
\* opens the transaction.
add_todo_execute(text, category, tags) ==
    /\ pc = "idle"
    /\ \E t \in Times :
        /\ Clock(t)
        /\ now' = t
        /\ txn' = InsertTodo(todos, lastrowid(todos, seq), text, category, tags, t,
                             next_order(todos))
    /\ pc' = "add_todo"
    /\ UNCHANGED <<todos, seq, categories, cur, k, last>>

\* complete_todo up to conn.commit().
complete_todo_execute(todo_id) ==
    /\ pc = "idle"
    /\ \E t \in Times :
        /\ Clock(t)
        /\ now' = t
        /\ txn' = UpdateCompleted(todos, todo_id, t)
    /\ pc' = "complete_todo"
    /\ UNCHANGED <<todos, seq, categories, cur, k, last>>

\* delete_todo up to conn.commit().
delete_todo_execute(todo_id) ==
    /\ pc = "idle"
    /\ txn' = DeleteRow(todos, todo_id)
    /\ pc' = "delete_todo"
    /\ UNCHANGED <<todos, seq, categories, now, cur, k, last>>

\* update_todo_order up to conn.commit(): the whole loop of UPDATEs.
update_todo_order_execute(todo_items) ==
    /\ pc = "idle"
    /\ txn' = EnumerateUpdates(todos, todo_items, 1)
    /\ pc' = "update_todo_order"
    /\ UNCHANGED <<todos, seq, categories, now, cur, k, last>>

Methods == {"add_todo", "complete_todo", "delete_todo", "update_todo_order"}

\* conn.commit(); conn.close(); return.  The INSERT of add_todo has also
\* advanced sqlite_sequence inside the transaction.
commit_close ==
    /\ pc \in Methods
    /\ todos' = conn_commit(todos, txn)
    /\ seq' = IF pc = "add_todo" THEN seq + 1 ELSE seq
    /\ last' = Returned(pc)
    /\ pc' = "idle"
    /\ txn' = <<>>
    /\ UNCHANGED <<categories, now, cur, k>>

\* The process stops, at any point, and is started again: what it held in
\* memory is gone, an open transaction is rolled back, and
\* TodoDatabase.__init__ runs init_database on the file (CREATE TABLE IF
\* NOT EXISTS).
init_database ==
    /\ pc \in Methods \cup {"idle"}
    /\ pc' = "idle"
    /\ txn' = <<>>
    /\ last' = Returned("init_database")
    /\ UNCHANGED <<todos, seq, categories, now, cur, k>>

AddExecute ==
    \E text \in Texts :
        seq < MaxId /\ add_todo_execute(text, "", "") /\ now' <= MaxTime

CompleteExecute ==
    \E todo_id \in Ids : complete_todo_execute(todo_id) /\ now' <= MaxTime

NextFile ==
    \/ AddExecute
    \/ CompleteExecute
    \/ \E todo_id \in Ids : delete_todo_execute(todo_id)
    \/ \E todo_items \in IdLists : update_todo_order_execute(todo_items)
    \/ commit_close
    \/ init_database

SpecFile == Init /\ [][NextFile]_vars

\* ------------------------------------------- add_todo from two callers
\* The threads or processes that call into the same database file.
\* TodoDatabase holds no lock and shares no connection between calls.
Callers == 1..2

\* What each caller has read and not yet inserted: cur[c] is the
\* next_order caller c computed, NULL when c is not inside add_todo.
InFlight == IF cur = <<>> THEN [c \in Callers |-> NULL] ELSE cur

Settle(locals) == IF \A c \in Callers : locals[c] = NULL THEN <<>> ELSE locals

\* add_todo up to the INSERT: SELECT MAX(order_index) runs outside any
\* transaction and its result is kept in the local next_order.
add_todo_select(c) ==
    /\ pc \in {"idle", "add_todo"}
    /\ InFlight[c] = NULL
    /\ cur' = [InFlight EXCEPT ![c] = next_order(todos)]
    /\ pc' = "add_todo"
    /\ UNCHANGED <<todos, seq, categories, now, txn, k, last>>

\* The rest of add_todo: now(), the INSERT with the next_order read
\* before, conn.commit() and return.
add_todo_insert(c, text, category, tags) ==
    /\ pc = "add_todo"
    /\ InFlight[c] # NULL
    /\ \E t \in Times :
        /\ Clock(t)
        /\ now' = t
        /\ todos' = InsertTodo(todos, lastrowid(todos, seq), text, category, tags, t,
                               InFlight[c])
    /\ seq' = seq + 1
    /\ cur' = Settle([InFlight EXCEPT ![c] = NULL])
    /\ pc' = IF cur' = <<>> THEN "idle" ELSE "add_todo"
    /\ last' = Returned("add_todo")
    /\ UNCHANGED <<categories, txn, k>>

AddSelect ==
    \E c \in Callers :
        seq + Cardinality({d \in Callers : InFlight[d] # NULL}) < MaxId /\ add_todo_select(c)

AddInsert ==
    \E c \in Callers, text \in Texts :
        add_todo_insert(c, text, "", "") /\ now' <= MaxTime

NextPar ==
    \/ AddSelect
    \/ AddInsert
    \/ Complete
    \/ \E todo_id \in Ids : delete_todo(todo_id)

SpecPar == Init /\ [][NextPar]_vars

\* ------------------------------------------ reorders as the window issues
\* Id lists over any part of the pending rows, each id at most once.
PartOrders(db) == UNION {Enumerations(S) : S \in SUBSET Pending(db)}

\* The id lists on_drop can hand to update_todo_order: it takes the ids of
\* get_pending_todos() and moves one of them, so the list names every
\* pending row once.
FullOrders(db) == Enumerations(Pending(db))

ReorderAll == \E todo_items \in FullOrders(todos) : update_todo_order(todo_items)

NextPerm ==
    \/ Add
    \/ Complete
    \/ \E todo_id \in Ids : delete_todo(todo_id)
    \/ ReorderAll

SpecPerm == Init /\ [][NextPerm]_vars

\* --------------------------------------------- drags over a longer queue
\* add_todo within one reading of the clock, which on_drop never reads.
AddRow == \E text \in Texts : seq < MaxRows /\ add_todo(text, "", "") /\ now' = now

Drop ==
    \E start_index \in 0..(MaxRows - 1), position_change \in Moves :
        on_drop(start_index, position_change)

NextDrop ==
    \/ AddRow
    \/ \E todo_id \in DoneIds : delete_todo(todo_id)
    \/ Drop
    \/ execute
    \/ commit
    \/ rollback

SpecDrop == Init /\ [][NextDrop]_vars

\* ----------------------------------------------------- what callers see
Idle == pc = "idle"

\* The order_index values of the pending rows.
PendingIndexes(db) == {db[i].order_index : i \in Pending(db)}

\* The pending rows carry the distinct indexes base, base + 1, ...
DenseFrom(db, base) ==
    /\ Cardinality(PendingIndexes(db)) = Cardinality(Pending(db))
    /\ PendingIndexes(db) = base..(base + Cardinality(Pending(db)) - 1)

\* ListPending reports exactly 0, 1, ..., n - 1, in this order.
ZeroBased(db) ==
    \A s \in get_pending_todos(db) : \A n \in 1..Len(s) : db[s[n]].order_index = n - 1

\* todo_items names every pending row once and nothing else.
ExactlyPending(db, todo_items) == todo_items \in Enumerations(Pending(db))

\* ------------------------------------------------------------------ C1
\* C1: after every call, the order_index values of the pending rows are
\* distinct and contiguous from one base that is the same in every state.
\* The first row ever added is alone in the queue, so the fixed base can
\* only be the index Add gives a row in an empty store.
C1_DenseFixedBase == Idle => DenseFrom(todos, next_order(<<>>))

\* ------------------------------------------------------------------ C2
\* C2: Add gives the new row order_index = (largest pending order_index)
\* + 1, or 0 when no row is pending.
C2_AddIndex ==
    [][\A text \in Texts :
        add_todo(text, "", "") =>
            todos'[seq'].order_index =
                IF Pending(todos) = {} THEN 0 ELSE max_order(todos) + 1]_vars

\* ------------------------------------------------------------------ C3
\* C3: once Delete or Complete of a pending row has returned, ListPending
\* reports the order_index values 0..n-1 for the n rows still pending.
C3_CompactedAfterRemoval ==
    [][\A todo_id \in Ids :
        (todo_id \in Pending(todos) /\ (complete_todo(todo_id) \/ delete_todo(todo_id)))
            => ZeroBased(todos')]_vars

\* ------------------------------------------------------------------ C4
\* C4: Reorder with a list that is not a duplicate-free enumeration of the
\* pending ids fails with ValidationError and changes no row.
C4_ReorderValidates ==
    [][\A todo_items \in IdLists :
        (update_todo_order(todo_items) /\ ~ExactlyPending(todos, todo_items))
            => (last'.err = "ValidationError" /\ todos' = todos)]_vars

\* ------------------------------------------------------------------ C5
\* C5: Reorder with a permutation of the pending ids gives the n-th id of
\* the list order_index n - 1 (counting n from 1), and ListPending then
\* returns the pending rows in the order of the list.
C5_ReorderAssigns ==
    [][\A todo_items \in Enumerations(Pending(todos)) :
        update_todo_order(todo_items)
            => /\ \A n \in 1..Len(todo_items) :
                    todos'[todo_items[n]].order_index = n - 1
               /\ get_pending_todos(todos') = {todo_items}]_vars

\* A reorder has returned and the queue is in another order than the ids:
\* the later row comes first, numbered from 0.
C5_Reordered ==
    /\ last.op = "update_todo_order"
    /\ Cardinality(Pending(todos)) >= 2
    /\ ZeroBased(todos)
    /\ \E s \in get_pending_todos(todos) : s[1] > s[2]

\* ------------------------------------------------------------------ C6
\* C6: Reorder with the id sequence ListPending currently returns changes
\* no row.
C6_ReorderCurrentOrder ==
    [][\A todo_items \in IdLists :
        (update_todo_order(todo_items) /\ todo_items \in get_pending_todos(todos))
            => todos' = todos]_vars

\* ------------------------------------------------------------------ C7
\* C7: while update_todo_order runs, the committed rows stay as they were
\* before the call; they change only at the commit, to the result of all
\* the updates at once, and an interrupted call leaves them unchanged.
C7_ReorderAtomic ==
    [][pc = "update_todo_order" =>
        \/ todos' = todos
        \/ /\ last'.err = "none"
           /\ pc' = "idle"
           /\ todos' = EnumerateUpdates(todos, cur, 1)]_vars

\* Some but not all updates are issued, and the transaction's view already
\* differs from the committed rows.
C7_PartlyIssued ==
    /\ pc = "update_todo_order"
    /\ 0 < k
    /\ k < Len(cur)
    /\ txn # todos

\* ------------------------------------------------------------------ C8
\* C8: Complete and Delete of an id no row has fail with NotFoundError and
\* change nothing.
C8_NotFound ==
    [][\A todo_id \in Ids :
        (todo_id \notin DOMAIN todos /\ (complete_todo(todo_id) \/ delete_todo(todo_id)))
            => (last'.err = "NotFoundError" /\ todos' = todos)]_vars

\* ------------------------------------------------------------------ C9
\* C9: Complete of a row that is already completed fails with
\* InvalidStateError and leaves the row, its completed_at included, as it is.
C9_CompleteOnce ==
    [][\A todo_id \in Ids :
        (todo_id \in Completed(todos) /\ complete_todo(todo_id))
            => (last'.err = "InvalidStateError" /\ todos'[todo_id] = todos[todo_id])]_vars

\* ----------------------------------------------------------------- C10
\* C10: a completed row keeps every field until it is deleted, whatever
\* is called, a repeated Complete and a Reorder naming it included.
C10_CompletedImmutable ==
    [][\A todo_id \in Completed(todos) :
        todo_id \in DOMAIN todos' => todos'[todo_id] = todos[todo_id]]_vars

\* ----------------------------------------------------------------- C11
\* C11: in every state, every stored row has completed_at set if and only
\* if its status is completed.
C11_CompletedAtIffCompleted ==
    \A i \in DOMAIN todos :
        (todos[i].completed_at # NULL) <=> (todos[i].status = "completed")

\* A completed row and a pending row are stored together.
C11_BothKinds == Completed(todos) # {} /\ Pending(todos) # {}

\* ----------------------------------------------------------------- C12
\* C12: a row is created pending, a completed row is never pending again
\* in a later state, and pending and completed are the only statuses.
C12_OneWay ==
    [][/\ \A i \in DOMAIN todos' \ DOMAIN todos : todos'[i].status = "pending"
       /\ \A i \in Completed(todos) :
            i \in DOMAIN todos' => todos'[i].status = "completed"
       /\ \A i \in DOMAIN todos' : todos'[i].status \in {"pending", "completed"}]_vars

\* A Complete has returned at a later clock reading than the one at which
\* another row was completed, and that row is still completed.
C12_StillCompleted ==
    /\ last.op = "complete_todo"
    /\ \E i \in Completed(todos) : todos[i].completed_at < now

\* ----------------------------------------------------------------- C13
\* C13: the id of a new row is larger than every id assigned before, and
\* an id that was assigned and is no longer stored never comes back.
C13_IdsNeverReused ==
    [][/\ \A i \in DOMAIN todos' \ DOMAIN todos : i > seq
       /\ \A i \in 1..seq : i \notin DOMAIN todos => i \notin DOMAIN todos']_vars

\* A row was added after the row with the largest id had been deleted.
C13_AddedAfterDelete ==
    /\ last.op = "add_todo"
    /\ seq = 2
    /\ DOMAIN todos = {2}

\* ----------------------------------------------------------------- C14
\* C14: Complete of a stored row changes the status and completed_at of
\* that row and nothing else: no order_index, no other row.
C14_CompleteFrame ==
    [][\A todo_id \in DOMAIN todos :
        complete_todo(todo_id) =>
            /\ DOMAIN todos' = DOMAIN todos
            /\ \A i \in DOMAIN todos \ {todo_id} : todos'[i] = todos[i]
            /\ todos'[todo_id] =
                [todos[todo_id] EXCEPT !.status = todos'[todo_id].status,
                                       !.completed_at = todos'[todo_id].completed_at]]_vars

\* The first of two queued rows is completed and the second keeps its
\* place behind the gap.
C14_GapLeft ==
    /\ last.op = "complete_todo"
    /\ \E i \in Completed(todos), j \in Pending(todos) :
        todos[i].order_index < todos[j].order_index

\* ----------------------------------------------------------------- C15
\* The number of completed rows of db whose completed_at is later than
\* that of row i.
LaterCompleted(db, i) ==
    Cardinality({j \in DOMAIN db : /\ db[j].status = "completed"
                                   /\ db[j].completed_at > db[i].completed_at})

DistinctCompletionTimes(db) ==
    \A i, j \in Completed(db) : i # j => db[i].completed_at # db[j].completed_at

\* C15: the completed list holds exactly the rows whose status is
\* completed, each once, and when their completed_at values differ it is
\* the one sequence that runs from the latest completion to the earliest:
\* rows completed at T1 < T2 < T3 are listed T3, T2, T1.
C15_CompletedNewestFirst ==
    /\ get_completed_todos(todos) # {}
    /\ \A s \in get_completed_todos(todos) :
        /\ {s[a] : a \in 1..Len(s)} = {i \in DOMAIN todos : todos[i].status = "completed"}
        /\ \A a, b \in 1..Len(s) : a # b => s[a] # s[b]
    /\ DistinctCompletionTimes(todos) =>
        \A s \in get_completed_todos(todos) :
            \A a \in 1..Len(s) : LaterCompleted(todos, s[a]) = a - 1

\* Three rows are completed at three different clock readings, the row
\* that was added first being completed last.
C15_ThreeCompleted ==
    /\ Cardinality(Completed(todos)) = 3
    /\ DistinctCompletionTimes(todos)
    /\ \E i, j \in Completed(todos) :
        i < j /\ todos[i].completed_at > todos[j].completed_at

C18_CategoriesInUse ==
    /\ \A c \in get_categories(todos) :
        c # "" /\ \E i \in Pending(todos) \cup Completed(todos) : todos[i].category = c
    /\ \A i \in DOMAIN todos :
        todos[i].category # "" => todos[i].category \in get_categories(todos)

\* The categories table holds a name no stored row carries, while a row
\* with another category is stored.
C18_UnusedName ==
    /\ \E c \in categories : \A i \in DOMAIN todos : todos[i].category # c
    /\ \E i \in DOMAIN todos : todos[i].category # ""

\* ----------------------------------------------------------------- C19
\* C19: ClearCompleted removes every completed row and no other, leaves
\* every field of every pending row as it was, raises nothing, and with no
\* completed row stored it changes no row at all.
C19_ClearCompleted ==
    [][clear_completed =>
        /\ DOMAIN todos' = {i \in DOMAIN todos : todos[i].status # "completed"}
        /\ \A i \in DOMAIN todos' : todos'[i] = todos[i]
        /\ (Completed(todos) = {} => todos' = todos)
        /\ last'.err = "none"]_vars

\* ClearCompleted has returned, an id that was assigned is gone, and a
\* pending row is still queued.
C19_PendingLeft ==
    /\ last.op = "clear_completed"
    /\ Pending(todos) # {}
    /\ Completed(todos) = {}
    /\ Cardinality(DOMAIN todos) < seq

\* ----------------------------------------------------------------- C20
\* C20: ClearCompleted is all-or-nothing: at every point of the call, and
\* so wherever it is interrupted, the stored rows hold either every row
\* that was completed when the call began or none of them.
C20_ClearAllOrNothing ==
    pc = "clear_completed" =>
        \/ \A n \in 1..Len(cur) : cur[n] \in DOMAIN todos
        \/ \A n \in 1..Len(cur) : cur[n] \notin DOMAIN todos

\* ----------------------------------------------------------------- C21
\* C21: Add with an empty text fails with ValidationError and stores no
\* row: the rows and their order_index values stay as they were.
C21_EmptyTextRejected ==
    [][add_todo("", "", "") => (last'.err = "ValidationError" /\ todos' = todos)]_vars

\* ----------------------------------------------------------------- C22
\* C22: when Add, Complete, Delete or Reorder returns, the file holds
\* everything the call wrote, and a stop of the process at any later
\* point followed by reopening the database finds the rows unchanged: a
\* mutation that has returned is never lost.
C22_DurableOnReturn ==
    [][/\ (pc \in Methods /\ pc' = "idle" /\ last' = Returned(pc)) =>
            (todos' = txn /\ (pc = "add_todo" => seq' \in DOMAIN todos'))
       /\ (pc = "idle" /\ init_database) => (todos' = todos /\ seq' = seq)]_vars

\* The process was stopped after calls had returned and the reopened
\* database holds a completed row those calls wrote.
C22_Reopened ==
    /\ last.op = "init_database"
    /\ pc = "idle"
    /\ Completed(todos) # {}

\* ----------------------------------------------------------------- C23
\* C23: calls issued concurrently are serialized, one mutation in flight
\* at a time, so two concurrent Adds never both insert with the same
\* maximum read: no two pending rows share an order_index.
C23_AddsSerialized ==
    /\ Cardinality({c \in Callers : InFlight[c] # NULL}) <= 1
    /\ \A i, j \in Pending(todos) :
        i # j => todos[i].order_index # todos[j].order_index

\* ----------------------------------------------------------------- C24
\* The sequence s with every occurrence of x left out.
Without(s, x) == SelectSeq(s, LAMBDA e : e # x)

\* C24: Complete or Delete of a pending row x leaves the pending list as
\* it was with x taken out, the other rows in their former order; Delete
\* of a completed row leaves the pending rows, ids and order_index values,
\* as they were.
C24_RemovalKeepsOrder ==
    [][/\ \A x \in Pending(todos) :
            (complete_todo(x) \/ delete_todo(x)) =>
                get_pending_todos(todos') = {Without(s, x) : s \in get_pending_todos(todos)}
       /\ \A x \in Completed(todos) :
            delete_todo(x) =>
                /\ Pending(todos') = Pending(todos)
                /\ \A i \in Pending(todos) : todos'[i] = todos[i]
                /\ get_pending_todos(todos') = get_pending_todos(todos)]_vars

\* The middle one of three queued rows has been removed and the other two
\* are still pending.
C24_MiddleRemoved ==
    /\ last.op \in {"complete_todo", "delete_todo"}
    /\ seq = 3
    /\ Pending(todos) = {1, 3}

\* ----------------------------------------------------------------- C25
\* C25: when every reorder names all the pending rows once, no two
\* pending rows ever share an order_index, and the pending list is then
\* the one sequence their order_index values fix.  (With lists over a part
\* of the pending rows in place of FullOrders the same property fails.)
C25_DistinctIndexes ==
    /\ \A i, j \in Pending(todos) :
        i # j => todos[i].order_index # todos[j].order_index
    /\ Cardinality(get_pending_todos(todos)) = 1

\* A reorder has put a row with a larger id in front of one with a
\* smaller id.
C25_SwappedQueue ==
    /\ last.op = "update_todo_order"
    /\ \E i, j \in Pending(todos) :
        i < j /\ todos[i].order_index > todos[j].order_index

\* ----------------------------------------------------------------- C26
\* s + d brought into 0..n-1.
Clamped(n, s, d) == IF s + d < 0 THEN 0 ELSE IF s + d > n - 1 THEN n - 1 ELSE s + d

\* C26: a drop that started on row s of a pending list of n rows and
\* covered d # 0 rows issues an update only when t = max(0, min(n-1, s+d))
\* differs from s, and the list it passes names every pending id once,
\* has the dragged id at index t and the other ids in their former order.
C26_DropIsFullReorder ==
    [][\A s \in 0..(MaxRows - 1), d \in Moves :
        on_drop(s, d) =>
            \E listed \in get_pending_todos(todos) :
                LET n == Len(listed)
                    t == Clamped(n, s, d)
                    dragged == listed[s + 1]
                IN  /\ d # 0
                    /\ s < n
                    /\ t # s
                    /\ Len(cur') = n
                    /\ {cur'[a] : a \in 1..n} = Pending(todos)
                    /\ cur'[t + 1] = dragged
                    /\ Without(cur', dragged) = Without(listed, dragged)
                    /\ todos' = todos]_vars

\* A drop moved the first of three pending rows to the end and no UPDATE
\* has run yet.
C26_DraggedToEnd ==
    /\ pc = "update_todo_order"
    /\ k = 0
    /\ Len(cur) = 3
    /\ \E listed \in get_pending_todos(todos) :
        cur = <<listed[2], listed[3], listed[1]>>

====
